---- MODULE Spec2Model ----
(***************************************************************************)
(* Model of the accumulation-and-persistence engine of store_analytics:    *)
(* HeatmapProcessor (app/core/heatmap.py), StorageService                  *)
(* (app/services/storage.py) and the frame path of Camera                  *)
(* (app/core/camera.py).                                                   *)
(*                                                                         *)
(* Strings are sequences of one-character strings, so that strftime,       *)
(* split, replace, startswith, glob and the substring test `in` are        *)
(* modelled by what they do.  Timestamps are whole seconds counted from    *)
(* midnight of StartDate.  A grid is a record [some, h, w, cells], cells   *)
(* being the sequence of its rows; `some` is FALSE for Python's None.      *)
(***************************************************************************)
EXTENDS Integers, Sequences, FiniteSets, TLC

(***************************************************************************)
(* Bounds of the model                                                     *)
(***************************************************************************)
\* calendar date (YYYYMMDD) of the day on which the model's clock starts
StartDate == 20240115
\* the clock runs up to the midnight that begins day StartDate + MaxDay
MaxDay == 1
\* number of state-changing operations explored: executions of
\* update_heatmap and executions of save_heatmap_data that reach the disk
MaxWork == 2
\* number of executions of update_heatmap explored in the accumulation runs
MaxUpdates == 3
\* number of executions of update_heatmap and of save_heatmap_data explored in
\* the retention runs
MaxSaves == 4
\* number of executions of update_heatmap and of save_heatmap_data after which
\* the thread runs start no further frame and no further save
MaxThreadWork == 2
\* the longest a save takes, in seconds
MaxSaveSeconds == 1
\* number of clients of /video_feed, each driving generate_frames in a thread
MaxClients == 2
\* number of executions of update_heatmap and of save_heatmap_data after which
\* the disk runs execute no further one
MaxDiskWork == 4
\* number of executions of update_heatmap and of save_heatmap_data after which
\* the resolution runs execute no further one
MaxShapeWork == 3

(***************************************************************************)
(* Program constants (app/config/settings.py)                              *)
(***************************************************************************)
SAVE_INTERVAL == 300
GAUSSIAN_RADIUS == 30

\* seconds in a day
DaySeconds == 24 * 3600

\* the midnights that begin the days after the first
Midnights == {d * DaySeconds : d \in 1..MaxDay}

\* the instants the clock can show: the start, one autosave interval later,
\* and the midnights of the following days
Instants == {0, SAVE_INTERVAL} \cup Midnights

\* the instants of the midnight runs: the start, and the last second before
\* and the first second of each following day
MidnightInstants == {0} \cup {m - 1 : m \in Midnights} \cup Midnights

\* the instants of the retention runs: the start, 02:40:11 of the first day,
\* and the midnights of the following days
RetentionInstants == {0, 2 * 3600 + 40 * 60 + 11} \cup Midnights

(***************************************************************************)
(* Strings                                                                 *)
(***************************************************************************)
DigitChars == <<"0", "1", "2", "3", "4", "5", "6", "7", "8", "9">>

RECURSIVE Pow10(_)
Pow10(n) == IF n = 0 THEN 1 ELSE 10 * Pow10(n - 1)

\* "%0wd" % n
Digits(n, w) == [i \in 1..w |-> DigitChars[((n \div Pow10(w - i)) % 10) + 1]]

\* str.startswith / str.endswith
StartsWith(s, p) == Len(s) >= Len(p) /\ SubSeq(s, 1, Len(p)) = p
EndsWith(s, p) == Len(s) >= Len(p) /\ SubSeq(s, Len(s) - Len(p) + 1, Len(s)) = p

\* p in s
Contains(s, p) ==
    \E i \in 1..(Len(s) - Len(p) + 1) : SubSeq(s, i, i + Len(p) - 1) = p

\* s.split('_')[-1]
SplitLast(s) ==
    LET seps == {i \in 1..Len(s) : s[i] = "_"}
        last == IF seps = {} THEN 0 ELSE CHOOSE i \in seps : \A j \in seps : j <= i
    IN SubSeq(s, last + 1, Len(s))

\* s.replace(p, '') for a p that occurs at most once in s
Replace(s, p) ==
    IF Contains(s, p)
    THEN LET i == CHOOSE k \in 1..(Len(s) - Len(p) + 1) : SubSeq(s, k, k + Len(p) - 1) = p
         IN SubSeq(s, 1, i - 1) \o SubSeq(s, i + Len(p), Len(s))
    ELSE s

\* glob.glob of "<prefix>*<suffix>"
GlobMatch(s, prefix, suffix) ==
    Len(s) >= Len(prefix) + Len(suffix) /\ StartsWith(s, prefix) /\ EndsWith(s, suffix)

\* character codes, for the comparisons made by sort and sorted
Alphabet ==
    <<".", "/", "0", "1", "2", "3", "4", "5", "6", "7", "8", "9", "_",
      "a", "b", "c", "d", "e", "f", "g", "h", "i", "j", "k", "l", "m",
      "n", "o", "p", "q", "r", "s", "t", "u", "v", "w", "x", "y", "z">>
Ord(c) == CHOOSE i \in 1..Len(Alphabet) : Alphabet[i] = c

RECURSIVE StrLess(_, _)
StrLess(a, b) ==
    IF b = <<>> THEN FALSE
    ELSE IF a = <<>> THEN TRUE
    ELSE IF Head(a) = Head(b) THEN StrLess(Tail(a), Tail(b))
    ELSE Ord(Head(a)) < Ord(Head(b))

\* sorted(S)[-1]
StrMax(S) == CHOOSE s \in S : \A t \in S : t = s \/ StrLess(t, s)

SaveDir == <<"s", "a", "v", "e", "d", "_", "h", "e", "a", "t", "m", "a", "p", "s">>
Slash == <<"/">>
PrefixData == <<"h", "e", "a", "t", "m", "a", "p", "_", "d", "a", "t", "a", "_">>
PrefixImage == <<"h", "e", "a", "t", "m", "a", "p", "_">>
PrefixMeta == <<"h", "e", "a", "t", "m", "a", "p", "_", "m", "e", "t", "a", "_">>
PrefixOverlay == <<"o", "v", "e", "r", "l", "a", "y", "_">>
ExtData == <<".", "n", "p", "z">>
ExtImage == <<".", "p", "n", "g">>
ExtMeta == <<".", "j", "s", "o", "n">>
ExtOverlay == <<".", "j", "p", "g">>

(***************************************************************************)
(* Clock and strftime                                                      *)
(***************************************************************************)
\* the calendar date of instant t as the number YYYYMMDD
DateOf(t) == StartDate + (t \div DaySeconds)
\* the time of day of instant t as the number HHMMSS
ClockOf(t) ==
    LET s == t % DaySeconds
    IN (s \div 3600) * 10000 + ((s % 3600) \div 60) * 100 + (s % 60)

\* strftime("%Y%m%d")
FormatDay(t) == Digits(DateOf(t), 8)
\* strftime("%Y%m%d_%H%M%S")
FormatStamp(t) == Digits(DateOf(t), 8) \o <<"_">> \o Digits(ClockOf(t), 6)

(***************************************************************************)
(* Frames, boxes and grids                                                 *)
(***************************************************************************)
\* shapes (height, width) of the frames the video source can deliver
FrameShapes == {<<1, 32>>}
\* the shapes of the frames of a camera whose resolution changes when it is
\* reconnected
ReconnectShapes == {<<1, 32>>, <<2, 32>>}
\* the frame shape of the accumulation runs
AreaShape == <<100, 100>>

\* detection boxes (x1, y1, x2, y2)
BoxA == <<0, 0, 1, 1>>
BoxB == <<30, 0, 32, 1>>
\* the detection lists a frame can carry, the empty list included
BoxLists == {<<>>, <<BoxA>>, <<BoxB>>, <<BoxA, BoxA>>}

\* the boxes of the accumulation runs, one per update
Box1 == <<10, 10, 20, 20>>
Box2 == <<50, 50, 60, 60>>
Box3 == <<70, 10, 90, 20>>
AreaBoxLists == {<<Box1>>, <<Box2>>, <<Box3>>}

\* the cells (row, column) of an array of shape (h, w)
Cells(h, w) == (0..(h - 1)) \X (0..(w - 1))

\* the array of shape (h, w) whose cell (row y, column x) holds val(y, x)
Array(h, w, val(_, _)) ==
    [some |-> TRUE, h |-> h, w |-> w,
     cells |-> SubSeq([y \in 1..h |-> SubSeq([x \in 1..w |-> val(y - 1, x - 1)], 1, w)], 1, h)]
\* the value of cell c = (row, column) of grid g
At(g, c) == g.cells[c[1] + 1][c[2] + 1]

\* None
NoGrid == [some |-> FALSE, h |-> 0, w |-> 0, cells |-> <<>>]
\* np.zeros(shape)
np_zeros(shape) == LET zero(y, x) == 0 IN Array(shape[1], shape[2], zero)

\* a frame as read from the video source; marks are what has been drawn on it
RawFrame(shape) == [some |-> TRUE, h |-> shape[1], w |-> shape[2], marks |-> {}]
NoFrame == [some |-> FALSE, h |-> 0, w |-> 0, marks |-> {}]

Abs(n) == IF n < 0 THEN -n ELSE n
Max2(a, b) == IF a >= b THEN a ELSE b
\* F applied to the value v: v is computed once and named by F's parameter
Let(v, F(_)) == F(v)

(***************************************************************************)
(* cv2.circle(img, center, radius, 1, -1): the spans of the filled circle, *)
(* as the pairs (dx, dy) the midpoint loop of the library walks through.   *)
(* For each pair the rows center.y -/+ dy are filled from center.x - dx to *)
(* center.x + dx and the rows center.y -/+ dx from center.x - dy to        *)
(* center.x + dy, clipped to the image.  The pixels are SET to the colour. *)
(***************************************************************************)
RECURSIVE CircleLoop(_, _, _, _, _)
CircleLoop(err, dx, dy, plus, minus) ==
    IF dx < dy THEN {}
    ELSE LET err1 == err + plus
             over == err1 > 0
         IN {<<dx, dy>>} \cup
            CircleLoop(IF over THEN err1 - minus ELSE err1,
                       IF over THEN dx - 1 ELSE dx,
                       dy + 1,
                       plus + 2,
                       IF over THEN minus - 2 ELSE minus)

CircleSpans == CircleLoop(0, GAUSSIAN_RADIUS, 0, 1, 2 * GAUSSIAN_RADIUS - 1)

\* the widest span painted on the rows at distance d from the center
SpanAt(d) ==
    LET widths == {s[1] : s \in {q \in CircleSpans : q[2] = d}}
                  \cup {s[2] : s \in {q \in CircleSpans : q[1] = d}}
    IN CHOOSE m \in widths : \A n \in widths : n <= m
HalfWidths == SubSeq([i \in 1..(GAUSSIAN_RADIUS + 1) |-> SpanAt(i - 1)], 1, GAUSSIAN_RADIUS + 1)

\* pixel (x, y) is painted by the filled circle around (cx, cy)
InCircle(cx, cy, x, y) ==
    /\ Abs(y - cy) <= GAUSSIAN_RADIUS
    /\ Abs(x - cx) <= HalfWidths[Abs(y - cy) + 1]

\* Center with the top-left corner of the box taken for its center
Center_corner(box) == <<box[1], box[2]>>

\* center_x, center_y = (x1 + x2) // 2, (y1 + y2) // 2
Center(box) == <<(box[1] + box[3]) \div 2, (box[2] + box[4]) \div 2>>

\* the cell (row, column) is painted by the circle of the box
Covers(box, cell) == InCircle(Center(box)[1], Center(box)[2], cell[2], cell[1])

\* new_heat after the loop over the detections: zeros with every circle painted
new_heat(shape, detections) ==
    LET painted(y, x) ==
            IF \E i \in DOMAIN detections : Covers(detections[i], <<y, x>>) THEN 1 ELSE 0
    IN Array(shape[1], shape[2], painted)

\* numpy broadcasting of two 2-d shapes
Broadcastable(a, b) ==
    /\ (a.h = b.h \/ a.h = 1 \/ b.h = 1)
    /\ (a.w = b.w \/ a.w = 1 \/ b.w = 1)

\* np_add with the sum replaced by its second operand (heatmap = new_heat)
np_add_overwrite(a, b) ==
    LET stretched(g, y, x) == At(g, <<IF g.h = 1 THEN 0 ELSE y, IF g.w = 1 THEN 0 ELSE x>>)
        second(y, x) == stretched(b, y, x)
    IN Array(Max2(a.h, b.h), Max2(a.w, b.w), second)

\* a + b for two arrays whose shapes broadcast
np_add(a, b) ==
    LET stretched(g, y, x) == At(g, <<IF g.h = 1 THEN 0 ELSE y, IF g.w = 1 THEN 0 ELSE x>>)
        sum(y, x) == stretched(a, y, x) + stretched(b, y, x)
    IN Array(Max2(a.h, b.h), Max2(a.w, b.w), sum)

\* the sum and the largest of the cells lo..hi of row y, by halves
RECURSIVE RowSum(_, _, _, _)
RowSum(g, y, lo, hi) ==
    IF lo > hi THEN 0
    ELSE IF lo = hi THEN g.cells[y][lo]
    ELSE LET mid == (lo + hi) \div 2
         IN RowSum(g, y, lo, mid) + RowSum(g, y, mid + 1, hi)
RECURSIVE RowMax(_, _, _, _)
RowMax(g, y, lo, hi) ==
    IF lo > hi THEN 0
    ELSE IF lo = hi THEN g.cells[y][lo]
    ELSE LET mid == (lo + hi) \div 2
         IN Max2(RowMax(g, y, lo, mid), RowMax(g, y, mid + 1, hi))
\* the same over the rows lo..hi
RECURSIVE RowsSum(_, _, _)
RowsSum(g, lo, hi) ==
    IF lo > hi THEN 0
    ELSE IF lo = hi THEN RowSum(g, lo, 1, g.w)
    ELSE LET mid == (lo + hi) \div 2
         IN RowsSum(g, lo, mid) + RowsSum(g, mid + 1, hi)
RECURSIVE RowsMax(_, _, _)
RowsMax(g, lo, hi) ==
    IF lo > hi THEN 0
    ELSE IF lo = hi THEN RowMax(g, lo, 1, g.w)
    ELSE LET mid == (lo + hi) \div 2
         IN Max2(RowsMax(g, lo, mid), RowsMax(g, mid + 1, hi))
\* np.sum
np_sum(g) == RowsSum(g, 1, g.h)
\* np.max of a non-empty array of non-negative values
np_max(g) == RowsMax(g, 1, g.h)

(***************************************************************************)
(* Values written to and read from the numeric payload                     *)
(***************************************************************************)
DigitVal(c) == (CHOOSE i \in 1..10 : DigitChars[i] = c) - 1
RECURSIVE ParseInt(_)
ParseInt(s) == IF s = <<>> THEN 0 ELSE 10 * ParseInt(SubSeq(s, 1, Len(s) - 1)) + DigitVal(s[Len(s)])

\* datetime.isoformat(): a Python str "YYYY-MM-DDTHH:MM:SS"
isoformat(t) ==
    LET d == Digits(DateOf(t), 8)
        c == Digits(ClockOf(t), 6)
    IN [type |-> "str",
        text |-> SubSeq(d, 1, 4) \o <<"-">> \o SubSeq(d, 5, 6) \o <<"-">> \o SubSeq(d, 7, 8)
                 \o <<"T">> \o SubSeq(c, 1, 2) \o <<":">> \o SubSeq(c, 3, 4)
                 \o <<":">> \o SubSeq(c, 5, 6)]

\* np.savez stores every keyword through np.asanyarray: a str becomes a
\* 0-d array of unicode dtype, and NpzFile[key] returns that array
np_asanyarray(v) == [type |-> "ndarray", text |-> v.text]

\* fromisoformat that also accepts the 0-d array np.load returns
fromisoformat_of_array(v) ==
    LET x == v.text
        date == ParseInt(SubSeq(x, 1, 4) \o SubSeq(x, 6, 7) \o SubSeq(x, 9, 10))
    IN [ok |-> TRUE,
        value |-> (date - StartDate) * DaySeconds
                  + ParseInt(SubSeq(x, 12, 13)) * 3600
                  + ParseInt(SubSeq(x, 15, 16)) * 60
                  + ParseInt(SubSeq(x, 18, 19))]

\* datetime.datetime.fromisoformat(v): TypeError unless v is a str
fromisoformat(v) ==
    IF v.type = "str"
    THEN LET x == v.text
             date == ParseInt(SubSeq(x, 1, 4) \o SubSeq(x, 6, 7) \o SubSeq(x, 9, 10))
         IN [ok |-> TRUE,
             value |-> (date - StartDate) * DaySeconds
                       + ParseInt(SubSeq(x, 12, 13)) * 3600
                       + ParseInt(SubSeq(x, 15, 16)) * 60
                       + ParseInt(SubSeq(x, 18, 19))]
    ELSE [ok |-> FALSE, value |-> 0]

(***************************************************************************)
(* StorageService.  The store is [dirs, files, npz]: the day folders under *)
(* SAVE_DIR, the files in them as [day, kind, stamp], and the content of   *)
(* each numeric payload.                                                   *)
(***************************************************************************)
EmptyStore == [dirs |-> {}, files |-> {}, npz |-> [f \in {} |-> 0]]

Prefix(kind) ==
    CASE kind = "data" -> PrefixData
      [] kind = "image" -> PrefixImage
      [] kind = "meta" -> PrefixMeta
      [] kind = "overlay" -> PrefixOverlay
Ext(kind) ==
    CASE kind = "data" -> ExtData
      [] kind = "image" -> ExtImage
      [] kind = "meta" -> ExtMeta
      [] kind = "overlay" -> ExtOverlay

\* f"<prefix>{timestamp}<ext>"
FileName(f) == Prefix(f.kind) \o f.stamp \o Ext(f.kind)
\* os.path.join(self.heatmap_save_dir, day, name)
FilePath(f) == SaveDir \o Slash \o f.day \o Slash \o FileName(f)

\* f.isdigit() and len(f) == 8
IsDayFolder(d) == Len(d) = 8 /\ \A i \in 1..8 : \E k \in 1..10 : DigitChars[k] = d[i]

\* writing a file creates it or replaces the file of the same name
WriteFile(st, f) == [st EXCEPT !.files = st.files \cup {f}]
\* the write of an artifact that is written only under a condition
WriteIf(cond, st, f) == IF cond THEN WriteFile(st, f) ELSE st
WritePayload(st, f, content) ==
    [st EXCEPT !.files = st.files \cup {f},
               !.npz = [g \in (DOMAIN st.npz) \cup {f} |-> IF g = f THEN content ELSE st.npz[g]]]
\* os.remove of a set of files
RemoveFiles(st, del) ==
    [st EXCEPT !.files = st.files \ del,
               !.npz = [g \in (DOMAIN st.npz) \ del |-> st.npz[g]]]

\* get_today_folder: the day folder of `now`, created if missing
get_today_folder(st, t) == [store |-> [st EXCEPT !.dirs = st.dirs \cup {FormatDay(t)}], folder |-> FormatDay(t)]

\* CleanupDay with data_files sorted in ascending order: the set of the
\* first data file is kept
CleanupDay_ascending(st, day_folder) ==
    LET inDay == {f \in st.files : f.day = day_folder}
        data_files == {f \in inDay : GlobMatch(FileName(f), PrefixData, ExtData)}
        image_files == {f \in inDay : GlobMatch(FileName(f), PrefixImage, ExtImage)}
        meta_files == {f \in inDay : GlobMatch(FileName(f), PrefixMeta, ExtMeta)}
        overlay_files == {f \in inDay : GlobMatch(FileName(f), PrefixOverlay, ExtOverlay)}
    IN IF data_files = {} THEN {}
       ELSE LET paths == {FilePath(f) : f \in data_files}
                latest_data == CHOOSE x \in paths : \A y \in paths : y = x \/ StrLess(x, y)
                timestamp == Replace(SplitLast(latest_data), ExtData)
            IN {f \in data_files \cup image_files \cup meta_files \cup overlay_files :
                    ~Contains(FilePath(f), timestamp)}

\* the files one day folder loses in the retention pass
CleanupDay(st, day_folder) ==
    LET inDay == {f \in st.files : f.day = day_folder}
        data_files == {f \in inDay : GlobMatch(FileName(f), PrefixData, ExtData)}
        image_files == {f \in inDay : GlobMatch(FileName(f), PrefixImage, ExtImage)}
        meta_files == {f \in inDay : GlobMatch(FileName(f), PrefixMeta, ExtMeta)}
        overlay_files == {f \in inDay : GlobMatch(FileName(f), PrefixOverlay, ExtOverlay)}
    IN IF data_files = {} THEN {}
       ELSE LET latest_data == StrMax({FilePath(f) : f \in data_files})
                timestamp == Replace(SplitLast(latest_data), ExtData)
            IN {f \in data_files \cup image_files \cup meta_files \cup overlay_files :
                    ~Contains(FilePath(f), timestamp)}

\* cleanup_old_heatmaps without the skip of the current day
cleanup_old_heatmaps_every_day(st, current_day_folder) ==
    LET day_folders == {d \in st.dirs : IsDayFolder(d)}
    IN RemoveFiles(st, UNION {CleanupDay(st, d) : d \in day_folders})

\* cleanup_old_heatmaps(current_day_folder)
cleanup_old_heatmaps(st, current_day_folder) ==
    LET day_folders == {d \in st.dirs : IsDayFolder(d)}
    IN RemoveFiles(st, UNION {CleanupDay(st, d) : d \in day_folders \ {current_day_folder}})

\* the points of save_heatmap_data at which the disk can fail
FailPoints == {"none", "folder", "data", "meta"}

\* save_heatmap_data with the retention pass in a finally clause: it runs
\* also after a write that failed
save_heatmap_data_finally(st, heatmap, start_time, last_frame, stats, t, failAt) ==
    IF ~heatmap.some \/ np_sum(heatmap) = 0
    THEN [store |-> st, raised |-> FALSE, wrote |-> FALSE]
    ELSE IF failAt = "folder" THEN [store |-> st, raised |-> TRUE, wrote |-> FALSE]
    ELSE Let(get_today_folder(st, t), LAMBDA today :
         Let(FormatStamp(t), LAMBDA timestamp :
         Let(WriteIf(np_max(heatmap) > 0, today.store,
                     [day |-> today.folder, kind |-> "image", stamp |-> timestamp]),
             LAMBDA s2 :
         IF failAt = "data"
         THEN [store |-> cleanup_old_heatmaps(s2, today.folder),
               raised |-> TRUE, wrote |-> FALSE]
         ELSE
         Let(WritePayload(s2, [day |-> today.folder, kind |-> "data", stamp |-> timestamp],
                          [heatmap |-> heatmap,
                           start_time |-> np_asanyarray(isoformat(start_time)),
                           end_time |-> np_asanyarray(isoformat(t))]),
             LAMBDA s3 :
         IF failAt = "meta" /\ stats.some
         THEN [store |-> cleanup_old_heatmaps(s3, today.folder),
               raised |-> TRUE, wrote |-> TRUE]
         ELSE
         Let(WriteIf(last_frame.some,
                     WriteIf(stats.some, s3,
                             [day |-> today.folder, kind |-> "meta", stamp |-> timestamp]),
                     [day |-> today.folder, kind |-> "overlay", stamp |-> timestamp]),
             LAMBDA s5 :
         [store |-> cleanup_old_heatmaps(s5, today.folder),
          raised |-> FALSE, wrote |-> TRUE])))))

\* save_heatmap_data with a rollback: a write that fails after the payload
\* removes what the invocation has written
save_heatmap_data_rollback(st, heatmap, start_time, last_frame, stats, t, failAt) ==
    IF ~heatmap.some \/ np_sum(heatmap) = 0
    THEN [store |-> st, raised |-> FALSE, wrote |-> FALSE]
    ELSE IF failAt = "folder" THEN [store |-> st, raised |-> TRUE, wrote |-> FALSE]
    ELSE Let(get_today_folder(st, t), LAMBDA today :
         Let(FormatStamp(t), LAMBDA timestamp :
         Let(WriteIf(np_max(heatmap) > 0, today.store,
                     [day |-> today.folder, kind |-> "image", stamp |-> timestamp]),
             LAMBDA s2 :
         IF failAt = "data" THEN [store |-> s2, raised |-> TRUE, wrote |-> FALSE]
         ELSE
         Let(WritePayload(s2, [day |-> today.folder, kind |-> "data", stamp |-> timestamp],
                          [heatmap |-> heatmap,
                           start_time |-> np_asanyarray(isoformat(start_time)),
                           end_time |-> np_asanyarray(isoformat(t))]),
             LAMBDA s3 :
         IF failAt = "meta" /\ stats.some
         THEN [store |-> RemoveFiles(s3, {[day |-> today.folder, kind |-> k,
                                           stamp |-> timestamp] : k \in {"image", "data"}}),
               raised |-> TRUE, wrote |-> TRUE]
         ELSE
         Let(WriteIf(last_frame.some,
                     WriteIf(stats.some, s3,
                             [day |-> today.folder, kind |-> "meta", stamp |-> timestamp]),
                     [day |-> today.folder, kind |-> "overlay", stamp |-> timestamp]),
             LAMBDA s5 :
         [store |-> cleanup_old_heatmaps(s5, today.folder),
          raised |-> FALSE, wrote |-> TRUE])))))

\* save_heatmap_data(heatmap, start_time, last_frame, stats) with the three
\* readings of the clock it makes: t_folder in get_today_folder, t_stamp for
\* the timestamp token, t_end for end_time;
\* raised: the exception is logged and re-raised to the caller
save_heatmap_data_at(st, heatmap, start_time, last_frame, stats, t_folder, t_stamp, t_end, failAt) ==
    IF ~heatmap.some \/ np_sum(heatmap) = 0
    THEN [store |-> st, raised |-> FALSE, wrote |-> FALSE]
    ELSE IF failAt = "folder" THEN [store |-> st, raised |-> TRUE, wrote |-> FALSE]
    ELSE Let(get_today_folder(st, t_folder), LAMBDA today :
         Let(FormatStamp(t_stamp), LAMBDA timestamp :
         Let(WriteIf(np_max(heatmap) > 0, today.store,
                     [day |-> today.folder, kind |-> "image", stamp |-> timestamp]),
             LAMBDA s2 :
         IF failAt = "data" THEN [store |-> s2, raised |-> TRUE, wrote |-> FALSE]
         ELSE
         Let(WritePayload(s2, [day |-> today.folder, kind |-> "data", stamp |-> timestamp],
                          [heatmap |-> heatmap,
                           start_time |-> np_asanyarray(isoformat(start_time)),
                           end_time |-> np_asanyarray(isoformat(t_end))]),
             LAMBDA s3 :
         IF failAt = "meta" /\ stats.some THEN [store |-> s3, raised |-> TRUE, wrote |-> TRUE]
         ELSE
         Let(WriteIf(last_frame.some,
                     WriteIf(stats.some, s3,
                             [day |-> today.folder, kind |-> "meta", stamp |-> timestamp]),
                     [day |-> today.folder, kind |-> "overlay", stamp |-> timestamp]),
             LAMBDA s5 :
         [store |-> cleanup_old_heatmaps(s5, today.folder),
          raised |-> FALSE, wrote |-> TRUE])))))

\* save_heatmap_data during which the clock shows instant t at every reading
save_heatmap_data(st, heatmap, start_time, last_frame, stats, t, failAt) ==
    save_heatmap_data_at(st, heatmap, start_time, last_frame, stats, t, t, t, failAt)

\* what load_latest_heatmap returns when it returns None
NoRecord == [some |-> FALSE, raised |-> FALSE, heatmap |-> NoGrid, start_time |-> 0]

\* no file: load_latest_heatmap returned before it opened one
NoFile == [day |-> <<>>, kind |-> "none", stamp |-> <<>>]

\* the payload file load_latest_heatmap opens: the last name starting with
\* heatmap_data_ in day_folders[0], the newest day folder
latest_file(st) ==
    Let({d \in st.dirs : IsDayFolder(d)}, LAMBDA day_folders :
    IF day_folders = {} THEN NoFile
    ELSE
    Let({f \in st.files : f.day = StrMax(day_folders) /\ StartsWith(FileName(f), PrefixData)},
        LAMBDA heatmap_files :
    IF heatmap_files = {} THEN NoFile
    ELSE CHOOSE f \in heatmap_files : FileName(f) = StrMax({FileName(g) : g \in heatmap_files})))

\* load_latest_heatmap without its except clause: the exception of the read
\* reaches the caller
load_latest_heatmap_uncaught(st) ==
    Let(latest_file(st), LAMBDA f :
    IF f = NoFile THEN NoRecord
    ELSE
    Let(st.npz[f], LAMBDA data :
    Let(fromisoformat(data.start_time), LAMBDA start_time :
    IF ~start_time.ok THEN [NoRecord EXCEPT !.raised = TRUE]
    ELSE [some |-> TRUE, raised |-> FALSE, heatmap |-> data.heatmap,
          start_time |-> start_time.value])))

\* load_latest_heatmap(): every exception is logged and turned into None
load_latest_heatmap(st) ==
    Let(latest_file(st), LAMBDA f :
    IF f = NoFile THEN NoRecord
    ELSE
    Let(st.npz[f], LAMBDA data :
    Let(fromisoformat(data.start_time), LAMBDA start_time :
    IF ~start_time.ok THEN NoRecord
    ELSE [some |-> TRUE, raised |-> FALSE, heatmap |-> data.heatmap,
          start_time |-> start_time.value])))

(***************************************************************************)
(* HeatmapProcessor                                                        *)
(***************************************************************************)
\* what get_statistics returns when it returns None
NoStats ==
    [some |-> FALSE, total_activity_points |-> 0, max_activity |-> 0,
     average_activity |-> <<0, 1>>, total_presence_detailed |-> <<0, 0, 0>>,
     duration |-> 0]

\* get_statistics with the mean taken over the non-zero cells only
get_statistics_nonzero_mean(hm, start_time, t) ==
    IF ~hm.some THEN NoStats
    ELSE [some |-> TRUE,
          total_activity_points |-> np_sum(hm),
          max_activity |-> np_max(hm),
          average_activity |->
              <<np_sum(hm), Cardinality({c \in Cells(hm.h, hm.w) : At(hm, c) # 0})>>,
          total_presence_detailed |->
              <<np_sum(hm) \div 3600, (np_sum(hm) % 3600) \div 60, np_sum(hm) % 60>>,
          duration |-> t - start_time]

\* get_statistics() at instant t; average_activity is the fraction <<sum, size>>
get_statistics(hm, start_time, t) ==
    IF ~hm.some THEN NoStats
    ELSE LET total_human_seconds == np_sum(hm)
         IN [some |-> TRUE,
             total_activity_points |-> np_sum(hm),
             max_activity |-> np_max(hm),
             average_activity |-> <<np_sum(hm), hm.h * hm.w>>,
             total_presence_detailed |->
                 <<total_human_seconds \div 3600,
                   (total_human_seconds % 3600) \div 60,
                   total_human_seconds % 60>>,
             duration |-> t - start_time]

\* save_heatmap with the day folder obtained before the emptiness test
save_heatmap_folder_first(st, hm, start_time, last_frame, t, failAt) ==
    Let(get_today_folder(st, t), LAMBDA today :
    IF hm.some /\ np_sum(hm) > 0
    THEN Let(save_heatmap_data(today.store, hm, start_time, last_frame,
                               get_statistics(hm, start_time, t), t, failAt),
             LAMBDA r : [store |-> r.store, raised |-> r.raised, called |-> TRUE,
                         wrote |-> r.wrote])
    ELSE [store |-> today.store, raised |-> FALSE, called |-> FALSE, wrote |-> FALSE])

\* save_heatmap(): called tells whether the storage service was invoked
save_heatmap(st, hm, start_time, last_frame, t, failAt) ==
    IF hm.some /\ np_sum(hm) > 0
    THEN Let(save_heatmap_data(st, hm, start_time, last_frame,
                               get_statistics(hm, start_time, t), t, failAt),
             LAMBDA r : [store |-> r.store, raised |-> r.raised, called |-> TRUE,
                         wrote |-> r.wrote])
    ELSE [store |-> st, raised |-> FALSE, called |-> FALSE, wrote |-> FALSE]

\* _auto_save_check(): the assignment to last_save_time follows the save and
\* is skipped when the save raises
_auto_save_check(st, hm, start_time, last_frame, last_save, t, failAt) ==
    IF t - last_save >= SAVE_INTERVAL
    THEN Let(save_heatmap(st, hm, start_time, last_frame, t, failAt),
             LAMBDA r : [store |-> r.store, raised |-> r.raised, called |-> r.called,
                         wrote |-> r.wrote,
                         last_save_time |-> IF r.raised THEN last_save ELSE t])
    ELSE [store |-> st, raised |-> FALSE, called |-> FALSE, wrote |-> FALSE,
          last_save_time |-> last_save]

\* update_heatmap with the autosave check ahead of the addition
update_heatmap_check_first(st, hm, start_time, last_frame, last_save, shape, detections, t, failAt) ==
    Let(IF ~hm.some THEN np_zeros(shape) ELSE hm, LAMBDA hm0 :
    Let(new_heat(shape, detections), LAMBDA heat :
    IF ~Broadcastable(hm0, heat)
    THEN [heatmap |-> hm0, store |-> st, last_save_time |-> last_save,
          raised |-> TRUE, called |-> FALSE, wrote |-> FALSE, checked |-> FALSE]
    ELSE
    Let(_auto_save_check(st, hm0, start_time, last_frame, last_save, t, failAt), LAMBDA a :
    [heatmap |-> IF a.raised THEN hm0 ELSE np_add(hm0, heat),
     store |-> a.store, last_save_time |-> a.last_save_time,
     raised |-> a.raised, called |-> a.called, wrote |-> a.wrote,
     checked |-> TRUE])))

\* update_heatmap(frame, detections); the addition raises ValueError when the
\* shapes of the grid and of the frame do not broadcast
update_heatmap(st, hm, start_time, last_frame, last_save, shape, detections, t, failAt) ==
    Let(IF ~hm.some THEN np_zeros(shape) ELSE hm, LAMBDA hm0 :
    Let(new_heat(shape, detections), LAMBDA heat :
    IF ~Broadcastable(hm0, heat)
    THEN [heatmap |-> hm0, store |-> st, last_save_time |-> last_save,
          raised |-> TRUE, called |-> FALSE, wrote |-> FALSE, checked |-> FALSE]
    ELSE
    Let(np_add(hm0, heat), LAMBDA hm1 :
    Let(_auto_save_check(st, hm1, start_time, last_frame, last_save, t, failAt), LAMBDA a :
    [heatmap |-> hm1, store |-> a.store, last_save_time |-> a.last_save_time,
     raised |-> a.raised, called |-> a.called, wrote |-> a.wrote,
     checked |-> TRUE]))))

\* (self.heatmap / np.max(self.heatmap) * 255).astype(np.uint8): a new array
heatmap_norm(hm) ==
    Let(np_max(hm), LAMBDA top :
        LET scaled(y, x) == (At(hm, <<y, x>>) * 255) \div top
        IN Array(hm.h, hm.w, scaled))

\* apply_heatmap_overlay with the grid normalised in place
apply_heatmap_overlay_inplace(hm, frame) ==
    IF ~hm.some \/ np_max(hm) = 0
    THEN [frame |-> frame, raised |-> FALSE, cached |-> FALSE, heatmap |-> hm]
    ELSE IF hm.h # frame.h \/ hm.w # frame.w
    THEN [frame |-> NoFrame, raised |-> TRUE, cached |-> FALSE, heatmap |-> heatmap_norm(hm)]
    ELSE [frame |-> [frame EXCEPT !.marks = @ \cup {"heatmap"}],
          raised |-> FALSE, cached |-> TRUE, heatmap |-> heatmap_norm(hm)]

\* apply_heatmap_overlay(frame): cv2.addWeighted raises when the colour-mapped
\* grid and the frame differ in size; cached tells whether
\* last_frame_with_heatmap was assigned, heatmap is self.heatmap after the
\* call (heatmap_norm is a separate array)
apply_heatmap_overlay(hm, frame) ==
    IF ~hm.some \/ np_max(hm) = 0
    THEN [frame |-> frame, raised |-> FALSE, cached |-> FALSE, heatmap |-> hm]
    ELSE IF hm.h # frame.h \/ hm.w # frame.w
    THEN [frame |-> NoFrame, raised |-> TRUE, cached |-> FALSE, heatmap |-> hm]
    ELSE [frame |-> [frame EXCEPT !.marks = @ \cup {"heatmap"}],
          raised |-> FALSE, cached |-> TRUE, heatmap |-> hm]

\* load_heatmap(): the grid and start time after it, given those before
load_heatmap(st, hm, start_time) ==
    Let(load_latest_heatmap(st), LAMBDA loaded_data :
    IF loaded_data.some
    THEN [heatmap |-> loaded_data.heatmap, heatmap_start_time |-> loaded_data.start_time,
          raised |-> FALSE]
    ELSE [heatmap |-> hm, heatmap_start_time |-> start_time,
          raised |-> loaded_data.raised])

(***************************************************************************)
(* State                                                                   *)
(***************************************************************************)
VARIABLES
    running,                  \* the process is up (Camera and HeatmapProcessor constructed)
    heatmap,                  \* HeatmapProcessor.heatmap
    heatmap_start_time,       \* HeatmapProcessor.heatmap_start_time
    last_save_time,           \* HeatmapProcessor.last_save_time
    last_frame_with_heatmap,  \* HeatmapProcessor.last_frame_with_heatmap
    store,                    \* the directory tree under SAVE_DIR
    now,                      \* the wall clock
    ev,                       \* the operation executed last and what happened in it
    ret_stats,                \* the value the last get_statistics returned
    ret_frame,                \* the frame the last render returned (NoFrame: none)
    saved,                    \* grid and start time of the last save that succeeded
    calls,                    \* per detection list, the updates applied since the last reset
    work,                     \* updates and disk-reaching saves executed so far
    lock,                     \* Camera.lock: "free", or "frame" while get_frame holds it
    frame_thread,             \* per streaming client, the position of its thread in get_frame
    stats_thread,             \* the position of the thread of the /statistics route
    reset_time                \* the instant of the last reset_heatmap that found a numeric
                              \* payload in the store, -1 before the first

vars == <<running, heatmap, heatmap_start_time, last_save_time, last_frame_with_heatmap,
          store, now, ev, ret_stats, ret_frame, saved, calls, work, lock, frame_thread,
          stats_thread, reset_time>>

\* the variables of the frame thread
threadVars == <<lock, frame_thread, stats_thread>>

\* the streaming clients
Clients == 1..MaxClients

\* a frame thread outside get_frame; acc is the sum its update has computed
\* and not yet assigned to self.heatmap
Idle == [pc |-> "idle", shape |-> <<0, 0>>, detections |-> <<>>, failAt |-> "none",
         acc |-> NoGrid]

\* the thread of the /statistics route outside get_statistics; stats is the
\* result it is building, grid the array its first read of self.heatmap saw
NoReader == [pc |-> "idle", stats |-> NoStats, grid |-> NoGrid]

\* the record of an operation in which nothing special happened
Ev(op) ==
    [op |-> op, raised |-> FALSE, due |-> FALSE, checked |-> FALSE, called |-> FALSE,
     wrote |-> FALSE, caught |-> FALSE, success |-> FALSE, detections |-> <<>>,
     shape |-> <<0, 0>>]

NoSaved == [valid |-> FALSE, heatmap |-> NoGrid, start_time |-> 0]
NoCalls == [l \in BoxLists \cup AreaBoxLists |-> 0]

\* the ghost record of the last successful save after a save_heatmap result r
SavedAfter(r, hm, start_time) ==
    IF ~r.called THEN saved
    ELSE IF r.raised THEN NoSaved
    ELSE [valid |-> TRUE, heatmap |-> hm, start_time |-> start_time]

\* the state after HeatmapProcessor.__init__ on an empty SAVE_DIR at time 0
Init ==
    /\ running = TRUE
    /\ heatmap = NoGrid
    /\ heatmap_start_time = 0
    /\ last_save_time = 0
    /\ last_frame_with_heatmap = NoFrame
    /\ store = EmptyStore
    /\ now = 0
    /\ ev = Ev("startup")
    /\ ret_stats = NoStats
    /\ ret_frame = NoFrame
    /\ saved = NoSaved
    /\ calls = NoCalls
    /\ work = 0
    /\ lock = "free"
    /\ frame_thread = [c \in Clients |-> Idle]
    /\ stats_thread = NoReader
    /\ reset_time = -1

(***************************************************************************)
(* Operations                                                              *)
(***************************************************************************)
\* the wall clock advances to instant t
Tick(t) ==
    /\ t > now
    /\ now' = t
    /\ ev' = Ev("tick")
    /\ ret_stats' = NoStats
    /\ ret_frame' = NoFrame
    /\ UNCHANGED <<running, heatmap, heatmap_start_time, last_save_time,
                   last_frame_with_heatmap, store, saved, calls, work>>
    /\ UNCHANGED threadVars
    /\ UNCHANGED reset_time

\* no frame was read
NoShape == <<0, 0>>

\* the frame detect_objects returns: the frame read, annotated in place
DetectedFrame(shape, detections) == RawFrame(shape)

\* Camera.get_frame() from `with self.lock` to its return, as one step: read,
\* detect, update if there are detections, render, encode; every exception
\* is logged and None is returned
GetFrame(success, shape, detections, failAt) ==
    /\ running
    /\ lock = "free"
    /\ IF ~success
       THEN /\ ev' = Ev("get_frame")
            /\ ret_frame' = NoFrame
            /\ UNCHANGED <<heatmap, store, last_save_time, last_frame_with_heatmap,
                           saved, calls, work>>
       ELSE \E u \in {IF detections # <<>>
                       THEN update_heatmap(store, heatmap, heatmap_start_time,
                                           last_frame_with_heatmap, last_save_time,
                                           shape, detections, now, failAt)
                       ELSE [heatmap |-> heatmap, store |-> store,
                             last_save_time |-> last_save_time, raised |-> FALSE,
                             called |-> FALSE, wrote |-> FALSE, checked |-> FALSE]} :
            \E o \in {IF u.raised
                       THEN [frame |-> NoFrame, raised |-> TRUE, cached |-> FALSE,
                             heatmap |-> u.heatmap]
                       ELSE apply_heatmap_overlay(u.heatmap, DetectedFrame(shape, detections))} :
               /\ heatmap' = o.heatmap
               /\ store' = u.store
               /\ last_save_time' = u.last_save_time
               /\ last_frame_with_heatmap' =
                      IF o.cached THEN o.frame ELSE last_frame_with_heatmap
               /\ saved' = SavedAfter(u, u.heatmap, heatmap_start_time)
               /\ calls' = IF u.checked THEN [calls EXCEPT ![detections] = @ + 1] ELSE calls
               /\ work' = work + (IF detections # <<>> THEN 1 ELSE 0)
                               + (IF u.called /\ failAt # "folder" THEN 1 ELSE 0)
               /\ ret_frame' = o.frame
               /\ ev' = [Ev("get_frame") EXCEPT
                           !.success = TRUE,
                           !.caught = o.raised,
                           !.due = (now - last_save_time >= SAVE_INTERVAL),
                           !.checked = u.checked,
                           !.called = u.called,
                           !.wrote = u.wrote,
                           !.detections = detections,
                           !.shape = shape]
    /\ ret_stats' = NoStats
    /\ UNCHANGED <<running, heatmap_start_time, now>>
    /\ UNCHANGED threadVars
    /\ UNCHANGED reset_time

\* HeatmapProcessor.apply_heatmap_overlay(frame) called on its own
ApplyOverlay(shape) ==
    /\ running
    /\ \E o \in {apply_heatmap_overlay(heatmap, RawFrame(shape))} :
          /\ heatmap' = o.heatmap
          /\ last_frame_with_heatmap' =
                 IF o.cached THEN o.frame ELSE last_frame_with_heatmap
          /\ ret_frame' = o.frame
          /\ ev' = [Ev("apply_heatmap_overlay") EXCEPT !.raised = o.raised, !.shape = shape]
    /\ ret_stats' = NoStats
    /\ UNCHANGED <<running, heatmap_start_time, last_save_time, store, now,
                   saved, calls, work>>
    /\ UNCHANGED threadVars
    /\ UNCHANGED reset_time

\* the /statistics route: get_statistics()
Statistics ==
    /\ running
    /\ ret_stats' = get_statistics(heatmap, heatmap_start_time, now)
    /\ ev' = Ev("get_statistics")
    /\ ret_frame' = NoFrame
    /\ UNCHANGED <<running, heatmap, heatmap_start_time, last_save_time,
                   last_frame_with_heatmap, store, now, saved, calls, work>>
    /\ UNCHANGED threadVars
    /\ UNCHANGED reset_time

\* the /save_heatmap route: save_heatmap()
SaveHeatmap(failAt) ==
    /\ running
    /\ \E r \in {save_heatmap(store, heatmap, heatmap_start_time, last_frame_with_heatmap,
                             now, failAt)} :
          /\ store' = r.store
          /\ saved' = SavedAfter(r, heatmap, heatmap_start_time)
          /\ ev' = [Ev("save_heatmap") EXCEPT
                      !.raised = r.raised, !.called = r.called, !.wrote = r.wrote]
          /\ work' = IF r.called /\ failAt # "folder" THEN work + 1 ELSE work
    /\ ret_stats' = NoStats
    /\ ret_frame' = NoFrame
    /\ UNCHANGED <<running, heatmap, heatmap_start_time, last_save_time,
                   last_frame_with_heatmap, now, calls>>
    /\ UNCHANGED threadVars
    /\ UNCHANGED reset_time

\* reset_heatmap that clears the grid in place instead of dropping it
ResetHeatmap_zero_fill ==
    /\ running
    /\ heatmap' = IF heatmap.some THEN np_zeros(<<heatmap.h, heatmap.w>>) ELSE NoGrid
    /\ heatmap_start_time' = now
    /\ calls' = NoCalls
    /\ ev' = Ev("reset_heatmap")
    /\ ret_stats' = NoStats
    /\ ret_frame' = NoFrame
    /\ UNCHANGED <<running, last_save_time, last_frame_with_heatmap, store, now,
                   saved, work>>
    /\ reset_time' = IF \E f \in store.files : f.kind = "data" THEN now ELSE reset_time
    /\ UNCHANGED threadVars

\* the /save_heatmap route while the clock advances: save_heatmap() entered
\* at `now`, the timestamp token taken at t_stamp and end_time at t_end
SaveHeatmapAcross(t_stamp, t_end) ==
    /\ running
    /\ now <= t_stamp
    /\ t_stamp <= t_end
    /\ t_end <= now + MaxSaveSeconds
    /\ heatmap.some
    /\ np_sum(heatmap) > 0
    /\ \E r \in {save_heatmap_data_at(store, heatmap, heatmap_start_time,
                                       last_frame_with_heatmap,
                                       get_statistics(heatmap, heatmap_start_time, now),
                                       now, t_stamp, t_end, "none")} :
          /\ store' = r.store
          /\ saved' = [valid |-> TRUE, heatmap |-> heatmap, start_time |-> heatmap_start_time]
          /\ ev' = [Ev("save_heatmap") EXCEPT
                      !.raised = r.raised, !.called = TRUE, !.wrote = r.wrote]
    /\ now' = t_end
    /\ work' = work + 1
    /\ ret_stats' = NoStats
    /\ ret_frame' = NoFrame
    /\ UNCHANGED <<running, heatmap, heatmap_start_time, last_save_time,
                   last_frame_with_heatmap, calls>>
    /\ UNCHANGED threadVars
    /\ UNCHANGED reset_time

\* the /reset_heatmap route: reset_heatmap()
ResetHeatmap ==
    /\ running
    /\ heatmap' = NoGrid
    /\ heatmap_start_time' = now
    /\ calls' = NoCalls
    /\ ev' = Ev("reset_heatmap")
    /\ ret_stats' = NoStats
    /\ ret_frame' = NoFrame
    /\ UNCHANGED <<running, last_save_time, last_frame_with_heatmap, store, now,
                   saved, work>>
    /\ reset_time' = IF \E f \in store.files : f.kind = "data" THEN now ELSE reset_time
    /\ UNCHANGED threadVars

\* Camera.cleanup() at process exit: release the capture, save_heatmap()
Cleanup(failAt) ==
    /\ running
    /\ \E r \in {save_heatmap(store, heatmap, heatmap_start_time, last_frame_with_heatmap,
                             now, failAt)} :
          /\ store' = r.store
          /\ saved' = SavedAfter(r, heatmap, heatmap_start_time)
          /\ ev' = [Ev("cleanup") EXCEPT
                      !.raised = r.raised, !.called = r.called, !.wrote = r.wrote]
          /\ work' = IF r.called /\ failAt # "folder" THEN work + 1 ELSE work
    /\ running' = FALSE
    /\ ret_stats' = NoStats
    /\ ret_frame' = NoFrame
    /\ UNCHANGED <<heatmap, heatmap_start_time, last_save_time, last_frame_with_heatmap,
                   now, calls>>
    /\ UNCHANGED threadVars
    /\ UNCHANGED reset_time

\* HeatmapProcessor.__init__() with last_save_time initialised to 0 instead of
\* the current time
Startup_zero_clock ==
    /\ ~running
    /\ \E l \in {load_heatmap(store, NoGrid, now)} :
          /\ running' = ~l.raised
          /\ heatmap' = l.heatmap
          /\ heatmap_start_time' = l.heatmap_start_time
          /\ ev' = [Ev("startup") EXCEPT !.raised = l.raised]
    /\ last_save_time' = 0
    /\ last_frame_with_heatmap' = NoFrame
    /\ calls' = NoCalls
    /\ ret_stats' = NoStats
    /\ ret_frame' = NoFrame
    /\ UNCHANGED <<store, now, saved, work>>
    /\ UNCHANGED threadVars
    /\ UNCHANGED reset_time

\* the next process starts: HeatmapProcessor.__init__(); an exception of the
\* constructor ends the process at the import of the routes
Startup ==
    /\ ~running
    /\ \E l \in {load_heatmap(store, NoGrid, now)} :
          /\ running' = ~l.raised
          /\ heatmap' = l.heatmap
          /\ heatmap_start_time' = l.heatmap_start_time
          /\ ev' = [Ev("startup") EXCEPT !.raised = l.raised]
    /\ last_save_time' = now
    /\ last_frame_with_heatmap' = NoFrame
    /\ calls' = NoCalls
    /\ ret_stats' = NoStats
    /\ ret_frame' = NoFrame
    /\ UNCHANGED <<store, now, saved, work>>
    /\ UNCHANGED threadVars
    /\ UNCHANGED reset_time

(***************************************************************************)
(* The program: every operation, with inputs from the sets above.  A disk  *)
(* failure is an input only of an operation that reaches the disk, and     *)
(* the work counter stops the exploration at MaxWork.                      *)
(***************************************************************************)
\* the autosave interval has elapsed
Due == now - last_save_time >= SAVE_INTERVAL

\* failAt is an admissible input of an operation that saves iff `saving`:
\* a disk failure is an input only of an operation that reaches the disk
DiskInput(failAt, saving) == saving \/ failAt = "none"

\* the work an operation adds when it updates and when it saves
Cost(updating, saving, failAt) ==
    (IF updating THEN 1 ELSE 0) + (IF saving /\ failAt # "folder" THEN 1 ELSE 0)

Next ==
    \/ \E t \in Instants : Tick(t)
    \/ GetFrame(FALSE, NoShape, <<>>, "none")
    \/ \E shape \in FrameShapes, detections \in BoxLists, failAt \in FailPoints :
           /\ DiskInput(failAt, detections # <<>> /\ Due)
           /\ work + Cost(detections # <<>>, detections # <<>> /\ Due, failAt) <= MaxWork
           /\ GetFrame(TRUE, shape, detections, failAt)
    \/ \E shape \in FrameShapes : ApplyOverlay(shape)
    \/ Statistics
    \/ \E failAt \in FailPoints :
           /\ DiskInput(failAt, heatmap.some)
           /\ work + Cost(FALSE, heatmap.some, failAt) <= MaxWork
           /\ SaveHeatmap(failAt)
    \/ ResetHeatmap
    \/ \E failAt \in FailPoints :
           /\ DiskInput(failAt, heatmap.some)
           /\ work + Cost(FALSE, heatmap.some, failAt) <= MaxWork
           /\ Cleanup(failAt)
    \/ Startup

Spec == Init /\ [][Next]_vars

(***************************************************************************)
(* The accumulation runs: frames of AreaShape carrying one box each, the   *)
(* render, the statistics route and the reset route.                       *)
(***************************************************************************)
NextArea ==
    \/ \E detections \in AreaBoxLists :
           /\ work + 1 <= MaxUpdates
           /\ GetFrame(TRUE, AreaShape, detections, "none")
    \/ ApplyOverlay(AreaShape)
    \/ Statistics
    \/ ResetHeatmap

SpecArea == Init /\ [][NextArea]_vars

(***************************************************************************)
(* The retention runs: frames with one detection and saves on a disk that  *)
(* does not fail, at the instants of RetentionInstants.                    *)
(***************************************************************************)
NextRetention ==
    \/ \E t \in RetentionInstants : Tick(t)
    \/ \E shape \in FrameShapes :
           /\ work + Cost(TRUE, Due, "none") <= MaxSaves
           /\ GetFrame(TRUE, shape, <<BoxA>>, "none")
    \/ /\ work + Cost(FALSE, heatmap.some, "none") <= MaxSaves
       /\ SaveHeatmap("none")

SpecRetention == Init /\ [][NextRetention]_vars

(***************************************************************************)
(* The thread runs: Camera.get_frame in the steps of its thread, which     *)
(* holds Camera.lock from the first to the last, and the routes, whose     *)
(* handlers run in threads of their own and take no lock.                  *)
(***************************************************************************)
\* get_frame without `with self.lock`
FrameAcquire_unlocked(c, shape, detections, failAt) ==
    /\ running
    /\ frame_thread[c].pc = "idle"
    /\ lock' = "frame"
    /\ frame_thread' = [frame_thread EXCEPT
                           ![c] = [pc |-> "detected", shape |-> shape,
                                   detections |-> detections, failAt |-> failAt,
                                   acc |-> NoGrid]]
    /\ ev' = Ev("lock")
    /\ ret_stats' = NoStats
    /\ ret_frame' = NoFrame
    /\ UNCHANGED <<running, heatmap, heatmap_start_time, last_save_time,
                   last_frame_with_heatmap, store, now, saved, calls, work>>
    /\ UNCHANGED <<stats_thread, reset_time>>

\* get_frame of client c enters `with self.lock`, reads a frame and runs the
\* detector
FrameAcquire(c, shape, detections, failAt) ==
    /\ running
    /\ lock = "free"
    /\ frame_thread[c].pc = "idle"
    /\ lock' = "frame"
    /\ frame_thread' = [frame_thread EXCEPT
                           ![c] = [pc |-> "detected", shape |-> shape,
                                   detections |-> detections, failAt |-> failAt,
                                   acc |-> NoGrid]]
    /\ ev' = Ev("lock")
    /\ ret_stats' = NoStats
    /\ ret_frame' = NoFrame
    /\ UNCHANGED <<running, heatmap, heatmap_start_time, last_save_time,
                   last_frame_with_heatmap, store, now, saved, calls, work>>
    /\ UNCHANGED <<stats_thread, reset_time>>

\* update_heatmap up to the addition: the grid is allocated if there is none
\* and the discs are drawn; update_heatmap is skipped when the frame has no
\* detections
FrameAllocate(c) ==
    /\ frame_thread[c].pc = "detected"
    /\ IF frame_thread[c].detections = <<>>
       THEN /\ frame_thread' = [frame_thread EXCEPT ![c].pc = "checked"]
            /\ ev' = Ev("detect_objects")
            /\ UNCHANGED heatmap
       ELSE /\ heatmap' = IF heatmap.some THEN heatmap ELSE np_zeros(frame_thread[c].shape)
            /\ frame_thread' = [frame_thread EXCEPT ![c].pc = "allocated"]
            /\ ev' = Ev("allocate")
    /\ ret_stats' = NoStats
    /\ ret_frame' = NoFrame
    /\ UNCHANGED <<running, heatmap_start_time, last_save_time, last_frame_with_heatmap,
                   store, now, saved, calls, work, lock>>
    /\ UNCHANGED <<stats_thread, reset_time>>

\* self.heatmap + new_heat: the grid is read and the sum computed; the
\* addition raises TypeError when self.heatmap is None and ValueError when
\* the shapes do not broadcast
FrameAdd(c) ==
    /\ frame_thread[c].pc = "allocated"
    /\ \E heat \in {new_heat(frame_thread[c].shape, frame_thread[c].detections)} :
          IF heatmap.some /\ Broadcastable(heatmap, heat)
          THEN /\ frame_thread' = [frame_thread EXCEPT
                                      ![c].pc = "added",
                                      ![c].acc = np_add(heatmap, heat)]
               /\ ev' = Ev("add")
               /\ work' = work
          ELSE /\ frame_thread' = [frame_thread EXCEPT ![c].pc = "failed"]
               /\ ev' = [Ev("update_heatmap") EXCEPT
                           !.raised = TRUE,
                           !.detections = frame_thread[c].detections,
                           !.shape = frame_thread[c].shape]
               /\ work' = work + 1
    /\ ret_stats' = NoStats
    /\ ret_frame' = NoFrame
    /\ UNCHANGED <<running, heatmap, heatmap_start_time, last_save_time,
                   last_frame_with_heatmap, store, now, saved, calls, lock>>
    /\ UNCHANGED <<stats_thread, reset_time>>

\* self.heatmap = <the sum>: the assignment that ends the accumulation
FrameStore(c) ==
    /\ frame_thread[c].pc = "added"
    /\ heatmap' = frame_thread[c].acc
    /\ frame_thread' = [frame_thread EXCEPT ![c].pc = "accumulated", ![c].acc = NoGrid]
    /\ calls' = [calls EXCEPT ![frame_thread[c].detections] = @ + 1]
    /\ work' = work + 1
    /\ ev' = [Ev("update_heatmap") EXCEPT
                !.detections = frame_thread[c].detections,
                !.shape = frame_thread[c].shape]
    /\ ret_stats' = NoStats
    /\ ret_frame' = NoFrame
    /\ UNCHANGED <<running, heatmap_start_time, last_save_time, last_frame_with_heatmap,
                   store, now, saved, lock>>
    /\ UNCHANGED <<stats_thread, reset_time>>

\* the call of _auto_save_check that ends update_heatmap
FrameAutoSave(c) ==
    /\ frame_thread[c].pc = "accumulated"
    /\ \E a \in {_auto_save_check(store, heatmap, heatmap_start_time,
                                  last_frame_with_heatmap, last_save_time, now,
                                  frame_thread[c].failAt)} :
          /\ store' = a.store
          /\ last_save_time' = a.last_save_time
          /\ saved' = SavedAfter(a, heatmap, heatmap_start_time)
          /\ work' = IF a.called /\ frame_thread[c].failAt # "folder" THEN work + 1 ELSE work
          /\ frame_thread' = [frame_thread EXCEPT
                                 ![c].pc = IF a.raised THEN "failed" ELSE "checked"]
          /\ ev' = [Ev("_auto_save_check") EXCEPT
                      !.raised = a.raised,
                      !.due = (now - last_save_time >= SAVE_INTERVAL),
                      !.checked = TRUE,
                      !.called = a.called,
                      !.wrote = a.wrote]
    /\ ret_stats' = NoStats
    /\ ret_frame' = NoFrame
    /\ UNCHANGED <<running, heatmap, heatmap_start_time, last_frame_with_heatmap, now,
                   calls, lock>>
    /\ UNCHANGED <<stats_thread, reset_time>>

\* the rest of get_frame: the render and the encoding, or the except clause
\* after a step that raised; leaving `with self.lock` releases the lock
FrameRelease(c) ==
    /\ frame_thread[c].pc \in {"checked", "failed"}
    /\ \E o \in {IF frame_thread[c].pc = "failed"
                 THEN [frame |-> NoFrame, raised |-> TRUE, cached |-> FALSE,
                       heatmap |-> heatmap]
                 ELSE apply_heatmap_overlay(heatmap,
                          DetectedFrame(frame_thread[c].shape,
                                        frame_thread[c].detections))} :
          /\ heatmap' = o.heatmap
          /\ last_frame_with_heatmap' =
                 IF o.cached THEN o.frame ELSE last_frame_with_heatmap
          /\ ret_frame' = o.frame
          /\ ev' = [Ev("get_frame") EXCEPT
                      !.success = TRUE,
                      !.caught = o.raised,
                      !.detections = frame_thread[c].detections,
                      !.shape = frame_thread[c].shape]
    /\ lock' = "free"
    /\ frame_thread' = [frame_thread EXCEPT ![c] = Idle]
    /\ ret_stats' = NoStats
    /\ UNCHANGED <<running, heatmap_start_time, last_save_time, store, now, saved,
                   calls, work>>
    /\ UNCHANGED <<stats_thread, reset_time>>

NextThreads ==
    \/ \E t \in Instants : Tick(t)
    \/ \E c \in Clients, shape \in FrameShapes, detections \in {<<>>, <<BoxA>>} :
           /\ work < MaxThreadWork
           /\ FrameAcquire(c, shape, detections, "none")
    \/ \E c \in Clients : FrameAllocate(c)
    \/ \E c \in Clients : FrameAdd(c)
    \/ \E c \in Clients : FrameStore(c)
    \/ \E c \in Clients : FrameAutoSave(c)
    \/ \E c \in Clients : FrameRelease(c)
    \/ Statistics
    \/ /\ work < MaxThreadWork
       /\ SaveHeatmap("none")
    \/ ResetHeatmap

SpecThreads == Init /\ [][NextThreads]_vars

(***************************************************************************)
(* The reader runs: get_statistics of the /statistics route in the steps   *)
(* of its thread, one per read of self.heatmap, next to the frame thread   *)
(* of one client and the reset route.                                      *)
(***************************************************************************)
\* what the steps of the statistics thread leave alone
ReaderFrame ==
    /\ ret_frame' = NoFrame
    /\ UNCHANGED <<running, heatmap, heatmap_start_time, last_save_time,
                   last_frame_with_heatmap, store, now, saved, calls, work, lock,
                   frame_thread, reset_time>>

\* `if self.heatmap is None: return None`
StatsEnter ==
    /\ running
    /\ stats_thread.pc = "idle"
    /\ IF heatmap.some
       THEN /\ stats_thread' = [NoReader EXCEPT !.pc = "entered"]
            /\ ev' = Ev("statistics")
            /\ ret_stats' = NoStats
       ELSE /\ stats_thread' = NoReader
            /\ ev' = Ev("get_statistics")
            /\ ret_stats' = NoStats
    /\ ReaderFrame

\* the exception of a read that finds self.heatmap = None: int(), float() and
\* .size fail on it, and the route answers with an error
StatsRaise ==
    /\ stats_thread' = NoReader
    /\ ev' = [Ev("get_statistics") EXCEPT !.raised = TRUE]
    /\ ret_stats' = NoStats

\* total_human_seconds = int(np.sum(self.heatmap)) and the elapsed time
StatsPresence ==
    /\ stats_thread.pc = "entered"
    /\ IF heatmap.some
       THEN /\ stats_thread' =
                   [stats_thread EXCEPT
                       !.pc = "presence",
                       !.grid = heatmap,
                       !.stats = [NoStats EXCEPT
                                     !.some = TRUE,
                                     !.total_presence_detailed =
                                         <<np_sum(heatmap) \div 3600,
                                           (np_sum(heatmap) % 3600) \div 60,
                                           np_sum(heatmap) % 60>>,
                                     !.duration = now - heatmap_start_time]]
            /\ ev' = Ev("statistics")
            /\ ret_stats' = NoStats
       ELSE StatsRaise
    /\ ReaderFrame

\* 'total_activity_points': float(np.sum(self.heatmap))
StatsTotal ==
    /\ stats_thread.pc = "presence"
    /\ IF heatmap.some
       THEN /\ stats_thread' =
                   [stats_thread EXCEPT
                       !.pc = "total",
                       !.stats = [@ EXCEPT !.total_activity_points = np_sum(heatmap)]]
            /\ ev' = Ev("statistics")
            /\ ret_stats' = NoStats
       ELSE StatsRaise
    /\ ReaderFrame

\* 'max_activity': float(np.max(self.heatmap))
StatsMax ==
    /\ stats_thread.pc = "total"
    /\ IF heatmap.some
       THEN /\ stats_thread' =
                   [stats_thread EXCEPT
                       !.pc = "max",
                       !.stats = [@ EXCEPT !.max_activity = np_max(heatmap)]]
            /\ ev' = Ev("statistics")
            /\ ret_stats' = NoStats
       ELSE StatsRaise
    /\ ReaderFrame

\* 'average_activity': float(np.mean(self.heatmap)), and the return
StatsMean ==
    /\ stats_thread.pc = "max"
    /\ IF heatmap.some
       THEN /\ stats_thread' = [NoReader EXCEPT !.grid = stats_thread.grid]
            /\ ev' = Ev("get_statistics")
            /\ ret_stats' = [stats_thread.stats EXCEPT
                                !.average_activity =
                                    <<np_sum(heatmap), heatmap.h * heatmap.w>>]
       ELSE StatsRaise
    /\ ReaderFrame

NextReaders ==
    \/ \E shape \in FrameShapes :
           /\ work < MaxThreadWork
           /\ FrameAcquire(1, shape, <<BoxA>>, "none")
    \/ FrameAllocate(1)
    \/ FrameAdd(1)
    \/ FrameStore(1)
    \/ FrameAutoSave(1)
    \/ FrameRelease(1)
    \/ ResetHeatmap
    \/ StatsEnter
    \/ StatsPresence
    \/ StatsTotal
    \/ StatsMax
    \/ StatsMean

SpecReaders == Init /\ [][NextReaders]_vars

(***************************************************************************)
(* The midnight runs: frames with one detection and saves of the route     *)
(* during which the clock advances, around the change of the day.          *)
(***************************************************************************)
NextMidnight ==
    \/ \E t \in MidnightInstants : Tick(t)
    \/ \E shape \in FrameShapes :
           /\ work + Cost(TRUE, Due, "none") <= MaxSaves
           /\ GetFrame(TRUE, shape, <<BoxA>>, "none")
    \/ \E t_stamp, t_end \in MidnightInstants :
           /\ work + 1 <= MaxSaves
           /\ SaveHeatmapAcross(t_stamp, t_end)

SpecMidnight == Init /\ [][NextMidnight]_vars

(***************************************************************************)
(* The disk runs: frames with one detection, saves and shutdowns on a disk *)
(* that can fail at every point, and the start of the next process.        *)
(***************************************************************************)
NextDisk ==
    \/ \E t \in Instants : Tick(t)
    \/ \E shape \in FrameShapes, failAt \in FailPoints :
           /\ DiskInput(failAt, Due)
           /\ work + Cost(TRUE, Due, failAt) <= MaxDiskWork
           /\ GetFrame(TRUE, shape, <<BoxA>>, failAt)
    \/ \E failAt \in FailPoints :
           /\ DiskInput(failAt, heatmap.some)
           /\ work + Cost(FALSE, heatmap.some, failAt) <= MaxDiskWork
           /\ SaveHeatmap(failAt)
    \/ \E failAt \in FailPoints :
           /\ DiskInput(failAt, heatmap.some)
           /\ work + Cost(FALSE, heatmap.some, failAt) <= MaxDiskWork
           /\ Cleanup(failAt)
    \/ Startup

SpecDisk == Init /\ [][NextDisk]_vars

(***************************************************************************)
(* The resolution runs: frames of two resolutions with one detection, and  *)
(* the reset route.                                                        *)
(***************************************************************************)
NextShapes ==
    \/ \E t \in Instants : Tick(t)
    \/ \E shape \in ReconnectShapes, detections \in {<<BoxA>>, <<BoxB>>} :
           /\ work + Cost(TRUE, Due, "none") <= MaxShapeWork
           /\ GetFrame(TRUE, shape, detections, "none")
    \/ ResetHeatmap

SpecShapes == Init /\ [][NextShapes]_vars

(***************************************************************************)
(* Properties                                                              *)
(***************************************************************************)
\* the value of cell c before the grid exists counts as 0
ValueAt(g, c) == IF g.some THEN At(g, c) ELSE 0

\* the last operation was a save that ran to its end
SaveCompleted == ev.wrote /\ ~ev.raised /\ ~ev.caught

\* C1: monotonic accumulation.  In every step other than reset_heatmap (and
\* the construction of a new processor) an allocated grid stays allocated
\* and no cell of it decreases; in particular no update_heatmap call lowers
\* a cell.
C1_Monotonic ==
    [][(ev'.op \notin {"reset_heatmap", "startup"} /\ heatmap.some)
           => /\ heatmap'.some
              /\ \A c \in Cells(heatmap.h, heatmap.w) :
                     At(heatmap', c) >= At(heatmap, c)]_vars

\* C1 witness: two updates with different boxes have been applied, and the
\* cell covered by both discs holds more than the cell covered by one
C1_Witness ==
    /\ ev.op = "get_frame" /\ ev.checked
    /\ calls[<<BoxA>>] >= 1 /\ calls[<<BoxB>>] >= 1
    /\ At(heatmap, <<0, 0>>) = 1
    /\ At(heatmap, <<0, 15>>) = 2

\* C2: round trip across a restart.  When a process starts after a
\* successful save (and no later save attempt), the new processor holds the
\* saved grid and the saved start time.
C2_RoundTrip ==
    (ev.op = "startup" /\ saved.valid)
        => (heatmap = saved.heatmap /\ heatmap_start_time = saved.start_time)

\* C3: retention.  After a save that ran to its end, every day bucket other
\* than the one just written that holds a numeric payload holds the
\* artifacts of one timestamp token only, the lexicographically last token
\* of its payloads.
C3_Retention ==
    SaveCompleted =>
        \A d \in store.dirs \ {FormatDay(now)} :
            LET inDay == {f \in store.files : f.day = d}
                tokens == {f.stamp : f \in {g \in inDay : g.kind = "data"}}
            IN tokens # {} => \A f \in inDay : f.stamp = StrMax(tokens)

\* C4: autosave cadence under failure.  Whenever the autosave check of a
\* frame finds the interval elapsed, last_save_time is the current time
\* afterwards, whether the save succeeded or failed.
C4_ClockReset ==
    (ev.op = "get_frame" /\ ev.checked /\ ev.due) => last_save_time = now

\* C5: the autosave check runs after every processed frame.  Whenever a
\* frame is processed while the interval has elapsed and the grid holds
\* activity, a save is triggered in that frame, detections or not.
C5_CheckEveryFrame ==
    (ev.op = "get_frame" /\ ev.success /\ ev.due /\ heatmap.some) => ev.called

\* C6: saving an empty surface is a silent no-op.  A save_heatmap call
\* (route or shutdown) on an unallocated or all-zero grid raises nothing and
\* leaves the store, its directories included, exactly as it was.
C6_EmptySave ==
    [][(ev'.op \in {"save_heatmap", "cleanup"} /\ (~heatmap.some \/ np_sum(heatmap) = 0))
           => (~ev'.raised /\ ~ev'.called /\ store' = store)]_vars

\* C6 witness: save_heatmap has returned on an unallocated grid while the
\* store holds the artifacts of an earlier checkpoint
C6_Witness ==
    /\ ev.op = "save_heatmap" /\ ~heatmap.some /\ ~ev.raised
    /\ store.files # {}

\* the values held by the cells of grid g
CellValues(g) == {At(g, c) : c \in Cells(g.h, g.w)}
\* the sum of the cells of g, value by value
RECURSIVE WeightedSum(_, _)
WeightedSum(g, vals) ==
    IF vals = {} THEN 0
    ELSE LET v == CHOOSE x \in vals : TRUE
         IN v * Cardinality({c \in Cells(g.h, g.w) : At(g, c) = v})
            + WeightedSum(g, vals \ {v})

\* C7: get_statistics returns None exactly when the grid is unallocated;
\* otherwise total_activity_points is the sum of the cells, max_activity the
\* largest cell and average_activity the sum divided by the number of cells.
C7_Statistics ==
    ev.op = "get_statistics" =>
        /\ ret_stats.some <=> heatmap.some
        /\ heatmap.some =>
               /\ ret_stats.total_activity_points
                      = WeightedSum(heatmap, CellValues(heatmap))
               /\ ret_stats.max_activity \in CellValues(heatmap)
               /\ \A v \in CellValues(heatmap) : v <= ret_stats.max_activity
               /\ ret_stats.average_activity[2] > 0
               /\ ret_stats.average_activity[1] * Cardinality(Cells(heatmap.h, heatmap.w))
                      = WeightedSum(heatmap, CellValues(heatmap))
                            * ret_stats.average_activity[2]

\* C7 witness: statistics were returned for a grid whose cells differ
C7_Witness ==
    /\ ev.op = "get_statistics" /\ ret_stats.some
    /\ ret_stats.max_activity = 2
    /\ Cardinality(CellValues(heatmap)) >= 2

\* C8: discs of one call overlap additively.  An update_heatmap call raises
\* every cell by the number of boxes of its list whose disc covers the cell.
C8_AdditiveInCall ==
    [][(ev'.op = "get_frame" /\ ev'.checked)
           => \A c \in Cells(heatmap'.h, heatmap'.w) :
                  At(heatmap', c) - ValueAt(heatmap, c)
                      = Cardinality({i \in DOMAIN ev'.detections :
                                         Covers(ev'.detections[i], c)})]_vars

\* the disc of radius GAUSSIAN_RADIUS around ((x1 + x2) // 2, (y1 + y2) // 2)
\* covers cell c = (row, column)
DiscCovers(box, c) ==
    InCircle((box[1] + box[3]) \div 2, (box[2] + box[4]) \div 2, c[2], c[1])
\* the number of one-box updates since the grid was unallocated whose disc
\* covers cell c
DiscCount(c) ==
    calls[<<Box1>>] * (IF DiscCovers(Box1, c) THEN 1 ELSE 0)
    + calls[<<Box2>>] * (IF DiscCovers(Box2, c) THEN 1 ELSE 0)
    + calls[<<Box3>>] * (IF DiscCovers(Box3, c) THEN 1 ELSE 0)
\* every cell holds the number of one-box updates whose disc covers it
CountsDiscs ==
    heatmap.some => \A c \in Cells(heatmap.h, heatmap.w) : At(heatmap, c) = DiscCount(c)
\* the scenario: boxes (10,10,20,20), (10,10,20,20), (50,50,60,60), one per
\* update, on a 100x100 frame, then the statistics
Scenario ==
    /\ calls = [NoCalls EXCEPT ![<<Box1>>] = 2, ![<<Box2>>] = 1]
    /\ ev.op = "get_statistics"

\* C9 as stated: every cell counts the one-box updates whose disc covers it,
\* and in the scenario cell (15,15) is 2, cell (55,55) is 1 and max_activity
\* is 2.
C9_AsStated ==
    /\ CountsDiscs
    /\ Scenario => /\ At(heatmap, <<15, 15>>) = 2
                   /\ At(heatmap, <<55, 55>>) = 1
                   /\ ret_stats.max_activity = 2

\* C9 (amended): every cell counts the one-box updates whose disc covers it,
\* and in the scenario cell (15,15) is 2, cell (55,55) is 1 and max_activity
\* is 3, the value of the cells covered by all three discs such as (35,35).
C9_Accumulation ==
    /\ CountsDiscs
    /\ Scenario => /\ At(heatmap, <<15, 15>>) = 2
                   /\ At(heatmap, <<55, 55>>) = 1
                   /\ At(heatmap, <<35, 35>>) = 3
                   /\ ret_stats.max_activity = 3

\* C9 witness: the statistics of the scenario have been returned
C9_Witness == Scenario /\ ret_stats.some /\ At(heatmap, <<15, 15>>) = 2

\* C10: rendering has no effect on accumulated state.  apply_heatmap_overlay
\* leaves the grid, the start time and last_save_time unchanged, and returns
\* the base frame unchanged when the grid is unallocated or all zero.
C10_RenderPure ==
    [][ev'.op = "apply_heatmap_overlay"
           => /\ heatmap' = heatmap
              /\ heatmap_start_time' = heatmap_start_time
              /\ last_save_time' = last_save_time
              /\ (~heatmap.some \/ np_max(heatmap) = 0)
                     => ret_frame' = RawFrame(ev'.shape)]_vars

\* C10 witness: a frame has been rendered over a grid that holds activity
C10_Witness ==
    /\ ev.op = "apply_heatmap_overlay" /\ ~ev.raised
    /\ heatmap.some /\ np_max(heatmap) = 2
    /\ "heatmap" \in ret_frame.marks

\* the last operation was the handler of an administrative route
AdminStep == ev.op \in {"get_statistics", "save_heatmap", "reset_heatmap"}

\* C11: the administrative operations take the lock of the frame path.  No
\* get_statistics, save_heatmap or reset_heatmap of a route executes while
\* the frame thread holds Camera.lock inside get_frame.
C11_AdminExcluded == AdminStep => lock # "frame"

\* C12: no file I/O while the frame-path lock is held.  In no state has a
\* save just written its numeric payload while Camera.lock is held.
C12_NoWriteUnderLock == ev.wrote => lock = "free"

\* the numeric payloads of a store
Payloads(st) == {f \in st.files : f.kind = "data"}

\* the lexicographically last payload of the newest day bucket holding one
NewestPayload(st) ==
    LET top == StrMax({f.day : f \in Payloads(st)})
        inTop == {f \in Payloads(st) : f.day = top}
    IN CHOOSE f \in inTop : FileName(f) = StrMax({FileName(g) : g \in inTop})

\* C13: load_latest_heatmap answers "none available" only if no day bucket
\* holds a payload.  Whenever some day bucket holds a payload, the file the
\* loader opens is the last payload of the newest bucket that holds one,
\* also when newer buckets without a payload exist.
C13_NewestNonEmpty ==
    Payloads(store) # {} => latest_file(store) = NewestPayload(store)

\* C14: load_latest_heatmap never raises.  On every store the program can
\* leave behind (no bucket, a bucket without payload, a payload whose read
\* fails) it returns a record or None, and a HeatmapProcessor constructed on
\* a store for which it returns None starts with no grid and with
\* heatmap_start_time at its construction time.
C14_LoadNeverRaises ==
    /\ ~load_latest_heatmap(store).raised
    /\ ev.op = "startup" =>
           /\ ~ev.raised
           /\ running
           /\ ~load_latest_heatmap(store).some =>
                  heatmap = NoGrid /\ heatmap_start_time = now

\* a process has started on a store whose newest payload cannot be read back
C14_Witness ==
    /\ ev.op = "startup"
    /\ latest_file(store) # NoFile
    /\ ~load_latest_heatmap(store).some
    /\ now > 0

\* the last operation called save_heatmap_data, which failed before the
\* numeric payload was on the disk
PayloadNotWritten == ev.called /\ ~ev.wrote

\* C15: a save whose payload write fails fails as a whole and runs no
\* retention pass.  A step in which save_heatmap_data is called and the
\* payload is not written ends with the exception at the caller (raised out
\* of save_heatmap, or caught by get_frame) and removes no file of the store.
C15_FailedPayloadWrite ==
    [][PayloadNotWritten' =>
           /\ ev'.raised \/ ev'.caught
           /\ store.files \subseteq store'.files
           /\ \A f \in store.files : f.kind = "data" => store'.npz[f] = store.npz[f]]_vars

\* a save made on a later day has written its image and failed at the
\* payload, while an earlier day bucket holds two checkpoints
C15_Witness ==
    /\ PayloadNotWritten
    /\ ev.raised
    /\ [day |-> FormatDay(now), kind |-> "image", stamp |-> FormatStamp(now)] \in store.files
    /\ [day |-> FormatDay(now), kind |-> "data", stamp |-> FormatStamp(now)] \notin store.files
    /\ \E f, g \in Payloads(store) :
           f # g /\ f.day = g.day /\ f.day # FormatDay(now)

\* the artifact of a kind that a save made now writes
Artifact(kind) == [day |-> FormatDay(now), kind |-> kind, stamp |-> FormatStamp(now)]

\* C16: partial-write failure.  A save that has written its payload and then
\* fails (its metadata file is missing) ends with the exception at its
\* caller, and after a save that failed behind the payload the image and the
\* payload it wrote are on the disk, the payload holding the grid saved.
C16_NoRollback ==
    /\ (ev.called /\ ev.wrote /\ Artifact("meta") \notin store.files) =>
           ev.raised \/ ev.caught
    /\ (ev.called /\ ev.wrote /\ (ev.raised \/ ev.caught)) =>
           /\ Artifact("image") \in store.files
           /\ Artifact("data") \in store.files
           /\ store.npz[Artifact("data")].heatmap = heatmap

\* a save has failed at the metadata write, behind the payload
C16_Witness ==
    /\ ev.called /\ ev.wrote /\ ev.raised
    /\ Artifact("data") \in store.files
    /\ Artifact("meta") \notin store.files

\* C17: shutdown is best-effort.  Camera.cleanup makes one save attempt
\* whatever the autosave clock says, and no exception of a failed save
\* leaves Camera.cleanup.
C17_BestEffortShutdown == ev.op = "cleanup" => ~ev.raised

\* C18: the retention pass leaves the active day bucket untouched.  No step,
\* and so no save, removes a file from the bucket of the current day: the
\* checkpoints saved on one day stay side by side in its bucket as long as
\* that day lasts.
C18_ActiveBucketKept ==
    [][\A f \in store.files : f.day = FormatDay(now') => f \in store'.files]_vars

\* a save has run to its end, retention pass included, in a bucket that
\* holds the checkpoint of an earlier save of the same day
C18_Witness ==
    /\ SaveCompleted
    /\ Artifact("data") \in store.files
    /\ \E f \in Payloads(store) : f.day = FormatDay(now) /\ f.stamp # FormatStamp(now)

\* C19: reset_heatmap drops the grid and restarts the clock of the grid.
\* A reset leaves the processor without grid and with heatmap_start_time at
\* the current time, calls no save and leaves the store and last_save_time
\* as they were; an update that finds no grid, as the first one after a reset
\* does, ends with a grid of the height and width of its frame that holds the
\* discs of its frame on zeros.
C19_Reset ==
    [][/\ ev'.op = "reset_heatmap" =>
              /\ heatmap' = NoGrid
              /\ heatmap_start_time' = now'
              /\ ~ev'.called
              /\ store' = store
              /\ last_save_time' = last_save_time
       /\ (~heatmap.some /\ ev'.op = "get_frame" /\ ev'.checked) =>
              /\ heatmap'.h = ev'.shape[1]
              /\ heatmap'.w = ev'.shape[2]
              /\ heatmap' = np_add(np_zeros(ev'.shape), new_heat(ev'.shape, ev'.detections))]_vars

\* the first update after a reset (only a reset moves heatmap_start_time in
\* the resolution runs) has allocated a grid of two rows for its frame of
\* two rows
C19_Witness ==
    /\ ev.op = "get_frame"
    /\ ev.checked
    /\ heatmap_start_time > 0
    /\ ev.shape = <<2, 32>>
    /\ heatmap.some
    /\ heatmap.h = 2
    /\ calls[ev.detections] = 1
    /\ \A l \in DOMAIN calls : l # ev.detections => calls[l] = 0

\* C20: construction.  HeatmapProcessor.__init__ takes the grid and the start
\* time of the record load_latest_heatmap returns, or starts without grid and
\* with heatmap_start_time at the construction time when it returns None, and
\* sets last_save_time to the construction time in both cases; last_save_time
\* never moves back, and a frame calls the autosave only when SAVE_INTERVAL
\* seconds have passed since last_save_time, so never earlier than
\* SAVE_INTERVAL seconds after the construction.
C20_Construction ==
    [][/\ ev'.op = "startup" =>
              /\ last_save_time' = now'
              /\ IF load_latest_heatmap(store).some
                 THEN /\ heatmap' = load_latest_heatmap(store).heatmap
                      /\ heatmap_start_time' = load_latest_heatmap(store).start_time
                 ELSE /\ heatmap' = NoGrid
                      /\ heatmap_start_time' = now'
       /\ last_save_time' >= last_save_time
       /\ (ev'.op = "get_frame" /\ ev'.called) =>
              now' - last_save_time >= SAVE_INTERVAL]_vars

\* a process constructed at 00:05:00 on a store that holds a payload has
\* made its first autosave, at the next midnight
C20_Witness ==
    /\ ev.op = "get_frame"
    /\ ev.called
    /\ heatmap_start_time = SAVE_INTERVAL
    /\ now > SAVE_INTERVAL
    /\ \E f \in Payloads(store) : f.stamp # FormatStamp(now)

\* C22: single logical writer.  At most one client's thread is inside the
\* body of get_frame at any time, and Camera.lock is held exactly while one
\* is.
C22_SingleWriter ==
    /\ Cardinality({c \in Clients : frame_thread[c].pc # "idle"}) <= 1
    /\ lock = "frame" <=> \E c \in Clients : frame_thread[c].pc # "idle"

\* the second execution of the frame path is in progress, in the thread of
\* the second client
C22_Witness ==
    /\ frame_thread[2].pc = "accumulated"
    /\ frame_thread[1].pc = "idle"
    /\ calls[<<BoxA>>] = 2

\* the value of cell c that the updates applied since the last reset add up to
SinceReset(c) ==
    LET shape == <<heatmap.h, heatmap.w>>
    IN calls[<<BoxA>>] * At(new_heat(shape, <<BoxA>>), c)
       + calls[<<BoxB>>] * At(new_heat(shape, <<BoxB>>), c)
       + calls[<<BoxA, BoxA>>] * At(new_heat(shape, <<BoxA, BoxA>>), c)

\* C25: a reset that runs while an update is in flight loses and corrupts
\* nothing.  No accumulation of update_heatmap fails, and when it has
\* assigned the grid every cell holds what the updates applied since the last
\* reset add up to: nothing accumulated before the reset is in the grid.
C25_ResetDuringUpdate ==
    ev.op = "update_heatmap" =>
        /\ ~ev.raised
        /\ heatmap.some
        /\ \A c \in Cells(heatmap.h, heatmap.w) : At(heatmap, c) = SinceReset(c)

\* C21: a statistics read never observes a torn grid.  No get_statistics call
\* fails, and every value of a result comes from the array the call read
\* first: total, maximum and mean agree with the presence string.
C21_NoTornRead ==
    ev.op = "get_statistics" =>
        /\ ~ev.raised
        /\ ret_stats.some =>
               /\ ret_stats.total_activity_points = np_sum(stats_thread.grid)
               /\ ret_stats.max_activity = np_max(stats_thread.grid)
               /\ ret_stats.average_activity
                      = <<np_sum(stats_thread.grid),
                          stats_thread.grid.h * stats_thread.grid.w>>

\* C23: the shape of the grid is fixed once it is allocated.  A processed
\* frame with detections leaves the height and width of an allocated grid as
\* they were, and when the frame's height x width differs from the grid's the
\* exception leaves get_frame and the grid is unchanged.
C23_ShapeFixed ==
    [][(ev'.op = "get_frame" /\ ev'.success /\ ev'.detections # <<>> /\ heatmap.some) =>
           /\ heatmap'.h = heatmap.h
           /\ heatmap'.w = heatmap.w
           /\ ev'.shape # <<heatmap.h, heatmap.w>> =>
                  ev'.raised /\ heatmap' = heatmap]_vars

\* the calendar date YYYYMMDD of an ISO text YYYY-MM-DDTHH:MM:SS
DateDigits(x) == SubSeq(x, 1, 4) \o SubSeq(x, 6, 7) \o SubSeq(x, 9, 10)

\* C24: checkpoint identity.  Every artifact lies in the day bucket named by
\* the date part of its timestamp token, and the bucket of a numeric payload
\* is the calendar date of the end_time stored in it, also for a save that
\* runs across midnight.
C24_CheckpointIdentity ==
    \A f \in store.files :
        /\ f.day = SubSeq(f.stamp, 1, 8)
        /\ f.kind = "data" => f.day = DateDigits(store.npz[f].end_time.text)

\* the lexicographically last numeric payload of day bucket d
LastPayload(st, d) ==
    LET inDay == {f \in Payloads(st) : f.day = d}
    IN CHOOSE f \in inDay : FileName(f) = StrMax({FileName(g) : g \in inDay})

\* C26: retention never removes the last checkpoint of a day.  In every step,
\* a save that succeeds or fails and a restart included, the last numeric
\* payload of every day bucket that holds one is still in its bucket
\* afterwards.
C26_LastCheckpointKept ==
    [][\A d \in {f.day : f \in Payloads(store)} :
           LastPayload(store, d) \in Payloads(store')]_vars

\* a save of a later day has run to its end, retention pass included, and
\* the bucket of the day before holds one payload, that of 00:05:00
C26_Witness ==
    /\ SaveCompleted
    /\ work = MaxDiskWork
    /\ \E d \in store.dirs :
           /\ d # FormatDay(now)
           /\ {f.stamp : f \in {g \in Payloads(store) : g.day = d}}
                  = {FormatStamp(SAVE_INTERVAL)}
    /\ \E f \in Payloads(store) : f.day = FormatDay(now)

\* the start time written into numeric payload f
StartOf(f) == fromisoformat([type |-> "str", text |-> store.npz[f].start_time.text]).value

C28_AutosaveOrder ==
    (ev.op = "get_frame" /\ ev.wrote) =>
        /\ Artifact("data") \in store.files
        /\ store.npz[Artifact("data")].heatmap = heatmap
        /\ \A c \in Cells(ev.shape[1], ev.shape[2]) :
               At(store.npz[Artifact("data")].heatmap, c)
                   >= At(new_heat(ev.shape, ev.detections), c)

\* the autosave of the second update has written a grid that counts both
\* updates
C28_Witness ==
    /\ ev.op = "get_frame"
    /\ ev.wrote
    /\ ~ev.caught
    /\ calls[<<BoxA>>] = 2
    /\ np_max(store.npz[Artifact("data")].heatmap) = 2

====
